---------------------------- MODULE Spec2Model ----------------------------
(***************************************************************************)
(* HS220 simulator: the forward-kinematics routine                         *)
(* (calculateForwardKinematics), the joint-state store of the Controls     *)
(* panel and the AI copilot that applies suggested poses.                  *)
(*                                                                         *)
(* Numbers are fixed-point integers:                                       *)
(*   angles in degrees   : units of 1/AngScale degree  (0.0001 deg)        *)
(*   angles in radians   : units of 1/One radian       (0.0000001 rad)     *)
(*   sines and cosines   : units of 1/One                                  *)
(*   lengths (mm)        : units of 1/LenScale mm      (0.00001 mm)        *)
(* Every product and quotient rounds to the nearest unit, as an IEEE       *)
(* operation rounds to the nearest double.                                 *)
(***************************************************************************)
EXTENDS Integers, Sequences, FiniteSets, TLC

VARIABLES
    joints,     \* App: const [joints, setJoints] = useState(INITIAL_JOINTS)
    input,      \* AICopilot: the text field
    loading,    \* AICopilot: a request is in flight
    messages,   \* AICopilot: the chat history
    pending,    \* the generateRobotPose call that has not settled yet
    edits,      \* number of joint edits made by the user so far
    pose,       \* the Pose returned by the last calculateForwardKinematics call
    fk          \* the locals of that call when it returned

vars == <<joints, input, loading, messages, pending, edits, pose, fk>>

-----------------------------------------------------------------------------
(* Fixed-point scales *)

AngScale == 10^4
One      == 10^7
LenScale == 10^5
Base     == 10^4

Deg(n) == n * AngScale

Abs(n) == IF n < 0 THEN -n ELSE n
Sgn(n) == IF n < 0 THEN -1 ELSE 1

(* a * b / One, rounded to the nearest unit; |a| < 2.6 * 10^8, |b| <= One.  *)
(* The operands are split in base 10^4 so that no intermediate exceeds the  *)
(* 32-bit range: hh, mid and ll are the high, cross and low partial         *)
(* products of the two magnitudes.                                          *)
FMulParts(hh, mid, ll) ==
    hh * (Base \div (One \div Base)) + mid \div (One \div Base)
        + ((mid % (One \div Base)) * Base + ll + One \div 2) \div One

FMulAbs(a, b) ==
    FMulParts((a \div Base) * (b \div Base),
              (a \div Base) * (b % Base) + (a % Base) * (b \div Base),
              (a % Base) * (b % Base))

FMul(a, b) == Sgn(a) * Sgn(b) * FMulAbs(Abs(a), Abs(b))

(* <<q, r>> with a * b = q * c + r and 0 <= r < c, for a, b >= 0 and       *)
(* c < 2^26, one digit of a in base Radix at a time, so that no             *)
(* intermediate exceeds 2 * Radix * c.                                      *)
Radix == 2^4

Carry(q, r, c) == <<q + r \div c, r % c>>

Shift(h, digit, b, c) ==
    Carry(Radix * h[1] + digit * (b \div c), Radix * h[2] + digit * (b % c), c)

RECURSIVE MulDivQR(_, _, _)
MulDivQR(a, b, c) ==
    IF a = 0 THEN <<0, 0>>
    ELSE Shift(MulDivQR(a \div Radix, b, c), a % Radix, b, c)

RoundQR(qr, c) == qr[1] + (IF 2 * qr[2] >= c THEN 1 ELSE 0)

(* a * b / c rounded to the nearest integer (halves away from zero) *)
MulDiv(a, b, c) == Sgn(a) * Sgn(b) * RoundQR(MulDivQR(Abs(a), Abs(b), c), c)

-----------------------------------------------------------------------------
(* Math.PI, Math.sin, Math.cos *)

PI        == 31415927
TwoPi     == 2 * PI
HalfPi    == PI \div 2
QuarterPi == PI \div 4

(* Taylor polynomials on [0, pi/4], in Horner form; x2 is x squared *)
SinHorner(x, x2) ==
    FMul(x, One - FMul(x2, One - FMul(x2, One - FMul(x2,
            One - x2 \div 72) \div 42) \div 20) \div 6)

SinSeries(x) == SinHorner(x, FMul(x, x))

CosHorner(x2) ==
    One - FMul(x2, One - FMul(x2, One - FMul(x2, One - FMul(x2,
            One - x2 \div 90) \div 56) \div 30) \div 12) \div 2

CosSeries(x) == CosHorner(FMul(x, x))

(* sine on the first quadrant [0, pi/2] *)
SinQ(x) == IF x <= QuarterPi THEN SinSeries(x) ELSE CosSeries(HalfPi - x)

(* sine of an angle t reduced to [0, 2 pi) *)
SinTurn(t) ==
    IF t <= HalfPi THEN SinQ(t)
    ELSE IF t <= PI THEN SinQ(PI - t)
    ELSE IF t <= PI + HalfPi THEN -SinQ(t - PI)
    ELSE -SinQ(TwoPi - t)

Sin(rad) == SinTurn(rad % TwoPi)

Cos(rad) == Sin(rad + HalfPi)

-----------------------------------------------------------------------------
(* utils/kinematics *)

d2r(deg) == MulDiv(deg, PI, 180 * AngScale)

r2d(rad) == MulDiv(rad, 180 * AngScale, PI)

\* mutant of DIMS: the elbow offset forgotten
DIMS_NoElbowOffset ==
    [d1 |-> 643, a1 |-> 352, a2 |-> 1075, a3 |-> 1210, d4 |-> 0,
     j2_offset_deg |-> 0, j3_offset_deg |-> 0]

\* mutant of DIMS: a tool of 100 mm is mounted
DIMS_WithTool ==
    [d1 |-> 643, a1 |-> 352, a2 |-> 1075, a3 |-> 1210, d4 |-> 100,
     j2_offset_deg |-> 0, j3_offset_deg |-> Deg(-90)]

DIMS == [d1 |-> 643, a1 |-> 352, a2 |-> 1075, a3 |-> 1210, d4 |-> 0,
         j2_offset_deg |-> 0, j3_offset_deg |-> Deg(-90)]

(* num.toFixed(2), parsed back: the nearest multiple of 0.01 *)
Cent == AngScale \div 100

toFixed2(num) == Sgn(num) * ((Abs(num) + Cent \div 2) \div Cent) * Cent

\* mutant of cleanFloat: rounds to one decimal, as the display does
cleanFloat_OneDecimal(num) ==
    IF Abs(num) < AngScale \div 1000 THEN 0
    ELSE Sgn(num) * ((Abs(num) + 5 * Cent) \div (10 * Cent)) * (10 * Cent)

cleanFloat(num) ==
    IF Abs(num) < AngScale \div 1000 THEN 0 ELSE toFixed2(num)

(* the planar reach, lines 58-61 *)
ReachXY(theta_2, theta_3, theta_4) ==
    DIMS.a1 * LenScale + FMul(DIMS.a2 * LenScale, Cos(theta_2))
                       + FMul(DIMS.a3 * LenScale, Cos(theta_3))
                       + FMul(DIMS.d4 * LenScale, Cos(theta_4))

(* the height, lines 65-68 *)
Height(theta_2, theta_3, theta_4) ==
    DIMS.d1 * LenScale + FMul(DIMS.a2 * LenScale, Sin(theta_2))
                       + FMul(DIMS.a3 * LenScale, Sin(theta_3))
                       + FMul(DIMS.d4 * LenScale, Sin(theta_4))

\* mutant of Orientation: the boundary r_xy = 0 falls to the back branch
Orientation_Strict(r_xy, global_pitch_deg) ==
    IF r_xy > 0
    THEN [rx |-> Deg(180), ry |-> global_pitch_deg + Deg(90), rz |-> Deg(180)]
    ELSE [rx |-> 0, ry |-> Deg(90) - global_pitch_deg, rz |-> 0]

\* mutant of Orientation: the back branch keeps the front formula for ry
Orientation_NoFlip(r_xy, global_pitch_deg) ==
    IF r_xy >= 0
    THEN [rx |-> Deg(180), ry |-> global_pitch_deg + Deg(90), rz |-> Deg(180)]
    ELSE [rx |-> 0, ry |-> global_pitch_deg + Deg(90), rz |-> 0]

(* the frame selection, lines 74-104 *)
Orientation(r_xy, global_pitch_deg) ==
    IF r_xy >= 0
    THEN [rx |-> Deg(180), ry |-> global_pitch_deg + Deg(90), rz |-> Deg(180)]
    ELSE [rx |-> 0, ry |-> Deg(90) - global_pitch_deg, rz |-> 0]

\* mutant of NormalizeRy: the second if is missing
NormalizeRy_NoAdd(ry) == IF ry > Deg(180) THEN ry - Deg(360) ELSE ry

(* line 107: if (ry > 180) ry -= 360 *)
SubTurn(ry) == IF ry > Deg(180) THEN ry - Deg(360) ELSE ry

(* line 108: if (ry < -180) ry += 360 *)
AddTurn(ry) == IF ry < Deg(-180) THEN ry + Deg(360) ELSE ry

(* lines 107-108: two independent ifs, each applied once *)
NormalizeRy(ry) == AddTurn(SubTurn(ry))

\* mutant of Radians: the bend is read from the forearm roll
Radians_BendFromRoll(j) ==
    [S |-> d2r(j.j1), H |-> d2r(j.j2), V |-> d2r(j.j3), B |-> d2r(j.j4)]

(* lines 38-44: the four angles read from the joint state *)
Radians(j) ==
    [S |-> d2r(j.j1), H |-> d2r(j.j2), V |-> d2r(j.j3), B |-> d2r(j.j5)]

(* lines 48-54: the cumulative pitch of each link *)
WithThetas(l) ==
    l @@ [theta_2 |-> l.H,
          theta_3 |-> l.H + l.V + d2r(DIMS.j3_offset_deg),
          theta_4 |-> l.H + l.V + l.B + d2r(DIMS.j3_offset_deg)]

(* lines 58-61 *)
WithReach(l) == l @@ [r_xy |-> ReachXY(l.theta_2, l.theta_3, l.theta_4)]

(* lines 63-68 *)
WithPosition(l) ==
    l @@ [x |-> FMul(l.r_xy, Cos(l.S)),
          y |-> FMul(l.r_xy, Sin(l.S)),
          z |-> Height(l.theta_2, l.theta_3, l.theta_4)]

(* line 72 *)
WithPitch(l) == l @@ [global_pitch_deg |-> r2d(l.theta_4)]

(* lines 74-104: rx, ry, rz as the branch assigns them; ry0 keeps that ry *)
WithOrientation(l) ==
    l @@ Orientation(l.r_xy, l.global_pitch_deg)
      @@ [ry0 |-> Orientation(l.r_xy, l.global_pitch_deg).ry]

(* lines 107-108 *)
WithNormalizedRy(l) == [l EXCEPT !.ry = NormalizeRy(l.ry)]

(* the locals of calculateForwardKinematics when it returns *)
fkLocals(j) ==
    WithNormalizedRy(WithOrientation(WithPitch(WithPosition(
        WithReach(WithThetas(Radians(j)))))))

(* the returned Pose, lines 110-117 *)
PoseOf(l) ==
    [x |-> l.x, y |-> l.y, z |-> l.z,
     rx |-> cleanFloat(l.rx), ry |-> cleanFloat(l.ry), rz |-> cleanFloat(l.rz)]

calculateForwardKinematics(j) == PoseOf(fkLocals(j))

-----------------------------------------------------------------------------
(* types.ts *)

Axes == {"j1", "j2", "j3", "j4", "j5", "j6"}

INITIAL_JOINTS ==
    [j1 |-> 0, j2 |-> Deg(90), j3 |-> 0, j4 |-> 0, j5 |-> Deg(-90), j6 |-> 0]

JOINT_LIMITS ==
    [j1 |-> [min |-> Deg(-180), max |-> Deg(180)],
     j2 |-> [min |-> 0,         max |-> Deg(160)],
     j3 |-> [min |-> Deg(-180), max |-> Deg(90)],
     j4 |-> [min |-> Deg(-360), max |-> Deg(360)],
     j5 |-> [min |-> Deg(-180), max |-> Deg(180)],
     j6 |-> [min |-> Deg(-360), max |-> Deg(360)]]

Min(a, b) == IF a < b THEN a ELSE b
Max(a, b) == IF a > b THEN a ELSE b

-----------------------------------------------------------------------------
(* Bounds of the model *)

\* out-of-range inputs reach Over full turns beyond a joint limit
Over == 1
\* the user makes at most MaxEdits joint edits
MaxEdits == 2
\* the chat history holds at most MaxMsgs messages
MaxMsgs == 5

-----------------------------------------------------------------------------
(* The forward-kinematics routine called on its own *)

\* the preset poses of the Controls panel, lines 207, 214 and 221
Pose1 == [j1 |-> 0, j2 |-> Deg(90), j3 |-> 0, j4 |-> 0, j5 |-> Deg(-90), j6 |-> 0]
Pose2 == [j1 |-> 0, j2 |-> Deg(155), j3 |-> 0, j4 |-> 0, j5 |-> 0, j6 |-> 0]
Pose3 == [j1 |-> 0, j2 |-> Deg(10), j3 |-> 0, j4 |-> 0, j5 |-> 0, j6 |-> 0]

NoPose == [x |-> 0, y |-> 0, z |-> 0, rx |-> 0, ry |-> 0, rz |-> 0]

NoLocals ==
    [S |-> 0, H |-> 0, V |-> 0, B |-> 0,
     theta_2 |-> 0, theta_3 |-> 0, theta_4 |-> 0,
     r_xy |-> 0, x |-> 0, y |-> 0, z |-> 0, global_pitch_deg |-> 0,
     rx |-> 0, ry0 |-> 0, ry |-> 0, rz |-> 0]

Turns == 0 .. Over

\* J2 = 39.8844, J3 = -116.45: the planar reach is exactly 0
ZeroReachJ2 == 398844
ZeroReachJ3 == 0 - 1164500

FKJ1 == {Deg(-90), 0, Deg(30), Deg(180)}
FKJ2 == {0, Deg(10), ZeroReachJ2, Deg(90), Deg(155), Deg(160)}
            \cup {Deg(160) + Deg(360) * k : k \in Turns}
FKJ3 == {Deg(-180), ZeroReachJ3, Deg(-90), 0, Deg(90)}
            \cup {Deg(-180) - Deg(360) * k : k \in Turns}
FKJ4 == {Deg(-360), 0}
FKJ5 == {Deg(-180), Deg(-90), Deg(-90) - 5, Deg(-90) + 50, Deg(-90) + 199,
         0, Deg(180)}
            \cup {Deg(180) + Deg(360) * k : k \in Turns}
FKJ6 == {0, Deg(90)}

FKInputs ==
    [j1 : FKJ1, j2 : FKJ2, j3 : FKJ3, j4 : FKJ4, j5 : FKJ5, j6 : FKJ6]

(* The state of App, Controls and AICopilot after the first render *)
NoRequest == [inflight |-> 0, currentJoints |-> INITIAL_JOINTS, prompt |-> <<>>]

UiInit ==
    /\ input = <<>>
    /\ loading = FALSE
    /\ messages = <<[role |-> "system", isError |-> FALSE]>>
    /\ pending = NoRequest
    /\ edits = 0

FKInit ==
    /\ joints \in FKInputs
    /\ pose = NoPose
    /\ fk = [pc |-> "entry", l |-> NoLocals, seen |-> {}]
    /\ UiInit

\* mutant of FKCall: the routine keeps a count of its calls and lets it
\* leak into the result
FKCall_Accumulates ==
    /\ fk.pc = "entry"
    /\ \E l \in {fkLocals(joints)} :
          /\ pose' = [PoseOf(l) EXCEPT !.x = @ + Cardinality(fk.seen)]
          /\ fk' = [pc |-> "returned", l |-> l,
                    seen |-> fk.seen \cup {[joints |-> joints, pose |-> pose']}]
    /\ UNCHANGED <<joints, input, loading, messages, pending, edits>>

\* one call, from entry to return: l is the locals when it returns and
\* PoseOf(l) = calculateForwardKinematics(joints) the Pose it returns; seen
\* collects the argument and the result of every call made so far
FKCall ==
    /\ fk.pc = "entry"
    /\ \E l \in {fkLocals(joints)} :
          /\ pose' = PoseOf(l)
          /\ fk' = [pc |-> "returned", l |-> l,
                    seen |-> fk.seen \cup {[joints |-> joints, pose |-> pose']}]
    /\ UNCHANGED <<joints, input, loading, messages, pending, edits>>

\* the caller calls again, on an argument it used before or on preset 2
FKRecall ==
    /\ fk.pc = "returned"
    /\ \E j \in {c.joints : c \in fk.seen} \cup {Pose2} :
          joints' = j
    /\ fk' = [fk EXCEPT !.pc = "entry"]
    /\ UNCHANGED <<input, loading, messages, pending, edits, pose>>

FKNext == FKCall \/ FKRecall

FKSpec == FKInit /\ [][FKNext]_vars

-----------------------------------------------------------------------------
(* components/Controls *)

\* the number an input event carries: parseFloat(e.target.value)
NaN    == [isNaN |-> TRUE, v |-> 0]
Num(n) == [isNaN |-> FALSE, v |-> n]

\* what the user types or drags: nothing (NaN), a value under every minimum,
\* a value inside every range, a value over every maximum
FieldValues ==
    {NaN, Num(Deg(-360) - Deg(360) * Over), Num(Deg(45) + 50),
     Num(Deg(360) + Deg(360) * Over)}

\* mutant of Clamp: the upper limit is not applied
Clamp_NoUpper(axis, value) == Max(value, JOINT_LIMITS[axis].min)

Clamp(axis, value) ==
    Min(Max(value, JOINT_LIMITS[axis].min), JOINT_LIMITS[axis].max)

\* { ...prev, [axis]: clamped }: the keys of prev and the key axis
Spread(prev, axis, clamped) ==
    [a \in (DOMAIN prev) \cup {axis} |-> IF a = axis THEN clamped ELSE prev[a]]

\* mutant of handleChange: the update spreads the joint state of the first
\* render instead of prev
handleChange_StaleClosure(axis, value) ==
    IF value.isNaN THEN joints
    ELSE Spread(INITIAL_JOINTS, axis, Clamp(axis, value.v))

\* lines 26-38: the new value of the joint state
handleChange(axis, value) ==
    IF value.isNaN THEN joints
    ELSE Spread(joints, axis, Clamp(axis, value.v))

\* joints[key] - 1 and joints[key] + 1: NaN when the joint state has no
\* such key (undefined - 1), and Math.max and Math.min keep a NaN
Stepped(axis, by) ==
    IF axis \in DOMAIN joints THEN Num(joints[axis] + by) ELSE NaN

MathMax(bound, n) == IF n.isNaN THEN NaN ELSE Num(Max(bound, n.v))
MathMin(bound, n) == IF n.isNaN THEN NaN ELSE Num(Min(bound, n.v))

Edit(newJoints) ==
    /\ edits < MaxEdits
    /\ edits' = edits + 1
    /\ joints' = newJoints
    /\ UNCHANGED <<input, loading, messages, pending, pose, fk>>

\* the slider and the number field, lines 175 and 192-195
FieldChange == \E axis \in Axes, value \in FieldValues :
    Edit(handleChange(axis, value))

\* the -1 button, line 164
StepDown == \E axis \in Axes :
    Edit(handleChange(axis, MathMax(JOINT_LIMITS[axis].min, Stepped(axis, Deg(-1)))))

\* the +1 button, line 181
StepUp == \E axis \in Axes :
    Edit(handleChange(axis, MathMin(JOINT_LIMITS[axis].max, Stepped(axis, Deg(1)))))

handleReset == Edit(Pose1)

Preset == \E p \in {Pose1, Pose2, Pose3} : Edit(p)

-----------------------------------------------------------------------------
(* components/AICopilot and services/geminiService *)

RECURSIVE TrimStart(_)
TrimStart(s) == IF s # <<>> /\ Head(s) = " " THEN TrimStart(Tail(s)) ELSE s

RECURSIVE TrimEnd(_)
TrimEnd(s) ==
    IF s # <<>> /\ s[Len(s)] = " " THEN TrimEnd(SubSeq(s, 1, Len(s) - 1)) ELSE s

Trim(s) == TrimEnd(TrimStart(s))

Texts == {<<>>, <<" ", " ">>, <<" ", "u", "p">>}

\* what JSON.parse may return as a pose: the model is asked to respect the
\* limits and to name the six axes, nothing in the code makes it; the value
\* is cast to JointState unchecked
AiTargets ==
    {[j1 |-> Deg(90), j2 |-> Deg(45), j3 |-> Deg(-30), j4 |-> 0,
      j5 |-> Deg(60), j6 |-> Deg(10)],
     [j1 |-> 0, j2 |-> Deg(160) + Deg(360) * Over, j3 |-> 0, j4 |-> 0,
      j5 |-> Deg(-180) - Deg(1), j6 |-> 0],
     [j1 |-> Deg(90), j2 |-> Deg(45), j4 |-> 0, j5 |-> Deg(60), j6 |-> Deg(10)]}

SetInput == \E text \in Texts :
    /\ input' = text
    /\ UNCHANGED <<joints, loading, messages, pending, edits, pose, fk>>

\* mutant of handleSubmit: the loading flag is not looked at
handleSubmit_IgnoresLoading ==
    IF Trim(input) = <<>>
    THEN UNCHANGED vars
    ELSE /\ Len(messages) + 2 <= MaxMsgs
         /\ input' = <<>>
         /\ messages' = Append(messages, [role |-> "user", isError |-> FALSE])
         /\ loading' = TRUE
         /\ pending' = [inflight |-> pending.inflight + 1,
                        currentJoints |-> joints, prompt |-> Trim(input)]
         /\ UNCHANGED <<joints, edits, pose, fk>>

\* lines 28-38, up to the await
handleSubmit ==
    IF Trim(input) = <<>> \/ loading
    THEN UNCHANGED vars
    ELSE /\ Len(messages) + 2 <= MaxMsgs
         /\ input' = <<>>
         /\ messages' = Append(messages, [role |-> "user", isError |-> FALSE])
         /\ loading' = TRUE
         /\ pending' = [inflight |-> pending.inflight + 1,
                        currentJoints |-> joints, prompt |-> Trim(input)]
         /\ UNCHANGED <<joints, edits, pose, fk>>

\* the calls left in flight when one settles
Settled ==
    IF pending.inflight = 1 THEN NoRequest
    ELSE [pending EXCEPT !.inflight = @ - 1]

\* mutant of ResolvePose: an answer that arrives after the joint state has
\* moved on is dropped
ResolvePose_KeepsEdits == \E targetJoints \in AiTargets :
    /\ pending.inflight > 0
    /\ joints' = IF joints = pending.currentJoints THEN targetJoints ELSE joints
    /\ messages' = Append(messages, [role |-> "assistant", isError |-> FALSE])
    /\ loading' = FALSE
    /\ pending' = Settled
    /\ UNCHANGED <<input, edits, pose, fk>>

\* generateRobotPose returned a pose: lines 40-45 and 59-61
ResolvePose == \E targetJoints \in AiTargets :
    /\ pending.inflight > 0
    /\ joints' = targetJoints
    /\ messages' = Append(messages, [role |-> "assistant", isError |-> FALSE])
    /\ loading' = FALSE
    /\ pending' = Settled
    /\ UNCHANGED <<input, edits, pose, fk>>

\* mutant of ResolveNull: the else branch puts the robot back where it was
\* at submit time
ResolveNull_RestoresCaptured ==
    /\ pending.inflight > 0
    /\ joints' = pending.currentJoints
    /\ messages' = Append(messages, [role |-> "assistant", isError |-> TRUE])
    /\ loading' = FALSE
    /\ pending' = Settled
    /\ UNCHANGED <<input, edits, pose, fk>>

\* generateRobotPose returned null (empty response text): lines 46-52, 59-61
ResolveNull ==
    /\ pending.inflight > 0
    /\ messages' = Append(messages, [role |-> "assistant", isError |-> TRUE])
    /\ loading' = FALSE
    /\ pending' = Settled
    /\ UNCHANGED <<joints, input, edits, pose, fk>>

\* mutant of Reject: no finally block
Reject_KeepsLoading ==
    /\ pending.inflight > 0
    /\ messages' = Append(messages, [role |-> "assistant", isError |-> TRUE])
    /\ pending' = Settled
    /\ UNCHANGED <<joints, input, loading, edits, pose, fk>>

\* generateRobotPose threw (no API key, network, JSON.parse): lines 53-61
Reject ==
    /\ pending.inflight > 0
    /\ messages' = Append(messages, [role |-> "assistant", isError |-> TRUE])
    /\ loading' = FALSE
    /\ pending' = Settled
    /\ UNCHANGED <<joints, input, edits, pose, fk>>

-----------------------------------------------------------------------------
(* The application *)

Init ==
    /\ joints = INITIAL_JOINTS
    /\ pose = NoPose
    /\ fk = [pc |-> "entry", l |-> NoLocals, seen |-> {}]
    /\ UiInit

Next ==
    \/ FieldChange
    \/ StepDown
    \/ StepUp
    \/ handleReset
    \/ Preset
    \/ SetInput
    \/ handleSubmit
    \/ ResolvePose
    \/ ResolveNull
    \/ Reject

Spec == Init /\ [][Next]_vars

(* The Controls panel on its own: the copilot stays closed *)
ControlsNext ==
    \/ FieldChange
    \/ StepDown
    \/ StepUp
    \/ handleReset
    \/ Preset

ControlsSpec == Init /\ [][ControlsNext]_vars

(* The copilot next to the preset and reset buttons of the panel, when     *)
(* every generateRobotPose call settles: the promise resolves with a pose, *)
(* resolves with null or rejects                                           *)
CopilotNext ==
    \/ handleReset
    \/ Preset
    \/ SetInput
    \/ handleSubmit
    \/ ResolvePose
    \/ ResolveNull
    \/ Reject

CopilotSpec ==
    /\ Init
    /\ [][CopilotNext]_vars
    /\ WF_vars(ResolvePose \/ ResolveNull \/ Reject)

-----------------------------------------------------------------------------
(* Properties *)

InLimits(j) ==
    \A a \in Axes :
        /\ a \in DOMAIN j
        /\ JOINT_LIMITS[a].min <= j[a] /\ j[a] <= JOINT_LIMITS[a].max

Returned == fk.pc = "returned"

\* one millimetre
Tol == LenScale

Near(v, mm) == Abs(v - mm * LenScale) <= Tol

\* C1: after any sequence of joint-state updates, the suggestion service's
\* answers included, every angle of the shared joint state lies within its
\* axis's interval of JOINT_LIMITS.
C1_JointsWithinLimits == InLimits(joints)

\* C2: for every finite joint state, inside the joint limits or not, the ry
\* returned lies in (-180, 180].
C2_RyHalfOpenAnyInput ==
    Returned => (pose.ry > Deg(-180) /\ pose.ry <= Deg(180))

C4_FrameSwitch ==
    Returned =>
        /\ fk.l.r_xy >= 0 => (pose.rx = Deg(180) /\ pose.rz = Deg(180))
        /\ fk.l.r_xy < 0 => (pose.rx = 0 /\ pose.rz = 0)
        /\ pose.rx = pose.rz
        /\ pose.rx \in {0, Deg(180)}

\* a call whose planar reach is exactly 0, answered with the front frame
C4_Witness == Returned /\ fk.l.r_xy = 0 /\ pose.rx = Deg(180)

\* C5: with pitch = J2 + J3 + J5 - 90, the ry before normalization and
\* rounding is pitch + 90 on the front branch and 90 - pitch on the back
\* branch.
C5_RyFromPitch ==
    Returned =>
        LET pitch == joints.j2 + joints.j3 + joints.j5 - Deg(90)
        IN  /\ fk.l.global_pitch_deg = pitch
            /\ fk.l.r_xy >= 0 => fk.l.ry0 = pitch + Deg(90)
            /\ fk.l.r_xy < 0 => fk.l.ry0 = Deg(90) - pitch

\* a back-reach call with a bent wrist and a fractional pitch
C5_Witness ==
    /\ Returned /\ fk.l.r_xy < 0
    /\ joints.j5 % Deg(1) # 0
    /\ fk.l.ry0 = Deg(180) - (joints.j2 + joints.j3 + joints.j5)

\* C6: calibration pose 2 (J2 = 155, the rest 0) gives x within 1 mm of -272
\* and z within 1 mm of 2502, on the back-reach branch.
C6_CalibrationPose2 ==
    (Returned /\ joints = Pose2) =>
        /\ Near(pose.x, -272) /\ Near(pose.z, 2502)
        /\ pose.rx = 0 /\ pose.rz = 0

\* C7: calibration pose 3 (J2 = 10, the rest 0) gives x within 1 mm of 1877
\* and z within 1 mm of -608, on the front-reach branch.
C7_CalibrationPose3 ==
    (Returned /\ joints = Pose3) =>
        /\ Near(pose.x, 1877) /\ Near(pose.z, -608)
        /\ pose.rx = Deg(180) /\ pose.rz = Deg(180)

\* C8: calibration pose 1, the initial and reset joint state, gives x within
\* 1 mm of 1562, y = 0, z within 1 mm of 1718, rx = rz = 180 and ry = 0.
C8_CalibrationPose1 ==
    (Returned /\ joints = INITIAL_JOINTS) =>
        /\ Near(pose.x, 1562) /\ pose.y = 0 /\ Near(pose.z, 1718)
        /\ pose.rx = Deg(180) /\ pose.rz = Deg(180) /\ pose.ry = 0

\* the call on pose 1 has returned
C8_Witness == Returned /\ joints = Pose1 /\ joints = INITIAL_JOINTS

\* C9: two joint states that differ only in J4 and J6 get the same pose.
C9_RollsIgnored ==
    Returned =>
        \A r2 \in FKJ4, r1 \in FKJ6 :
            calculateForwardKinematics([joints EXCEPT !.j4 = r2, !.j6 = r1])
                = pose

\* a call with both roll angles away from 0
C9_Witness == Returned /\ joints.j4 # 0 /\ joints.j6 # 0 /\ joints.j5 # 0

\* C10: rx, ry and rz are passed through cleanFloat (0 below 0.001, else the
\* nearest multiple of 0.01); x, y and z are returned as computed.
C10_CleanOrientation ==
    Returned =>
        LET cent == AngScale \div 100
            Clean(out, raw) ==
                /\ out % cent = 0
                /\ Abs(raw) < AngScale \div 1000 => out = 0
                /\ 2 * Abs(out - raw) <= cent
        IN  /\ Clean(pose.rx, fk.l.rx)
            /\ Clean(pose.ry, fk.l.ry)
            /\ Clean(pose.rz, fk.l.rz)
            /\ pose.x = fk.l.x /\ pose.y = fk.l.y /\ pose.z = fk.l.z

\* a call whose ry is not 0 but below 0.001, reported as 0, and whose x is
\* not a multiple of 0.01 mm
C10_Witness ==
    /\ Returned
    /\ fk.l.ry # 0 /\ Abs(fk.l.ry) < AngScale \div 1000 /\ pose.ry = 0
    /\ pose.x % (LenScale \div 100) # 0

\* C11: a joint-value change whose value is NaN leaves the joint state
\* unchanged, and after any sequence of user edits and applied suggestion
\* results the joint state handed to calculateForwardKinematics has a number
\* on each of the six axes.
C11_NoInvalidNumber ==
    /\ \A axis \in Axes : handleChange(axis, NaN) = joints
    /\ \A axis \in Axes : axis \in DOMAIN joints

\* a value below the minimum, the two limits, a value above the maximum and
\* the values the fields produce
ClampValues(axis) ==
    {JOINT_LIMITS[axis].min - 1, JOINT_LIMITS[axis].min,
     JOINT_LIMITS[axis].max, JOINT_LIMITS[axis].max + 1}
        \cup {n.v : n \in FieldValues \ {NaN}}

\* what the claim says is stored for v: v in range, else the limit passed
Expected(axis, v) ==
    IF v < JOINT_LIMITS[axis].min THEN JOINT_LIMITS[axis].min
    ELSE IF v > JOINT_LIMITS[axis].max THEN JOINT_LIMITS[axis].max
    ELSE v

\* C12: for every axis and every value v, clamp(clamp(v)) = clamp(v);
\* handleChange(axis, v) stores exactly v when min <= v <= max, min when
\* v < min and max when v > max.
C12_ClampIdempotent ==
    \A axis \in Axes : \A v \in ClampValues(axis) :
        /\ Clamp(axis, Clamp(axis, v)) = Clamp(axis, v)
        /\ handleChange(axis, Num(v))[axis] = Expected(axis, v)

\* after two edits: J1 typed below its minimum and stored as the minimum,
\* J3 typed in range and stored as typed
C12_Witness ==
    /\ edits = 2
    /\ joints.j1 = JOINT_LIMITS.j1.min
    /\ joints.j3 = Deg(45) + 50

PositionOf(l) ==
    [x |-> l.x, y |-> l.y, z |-> l.z, r_xy |-> l.r_xy,
     rx |-> cleanFloat(l.rx), rz |-> cleanFloat(l.rz)]

\* C19: with d4 = 0, two joint states that differ only in J5 get the same
\* x, y, z, the same r_xy and the same rx and rz: every joint state gets
\* those of the joint state with the same other five angles and J5 = 0.
C19_BendLeavesPosition ==
    Returned =>
        PositionOf(fkLocals([joints EXCEPT !.j5 = 0])) = PositionOf(fk.l)

\* a call with the wrist bent by 180 degrees, whose ry is not the ry of the
\* straight wrist
C19_Witness ==
    /\ Returned
    /\ DIMS.d4 = 0
    /\ joints.j5 = Deg(180)
    /\ fkLocals([joints EXCEPT !.j5 = 0]).ry # fk.l.ry

Last(seq) == seq[Len(seq)]

\* a step in which a generateRobotPose call settles
Settles == pending'.inflight < pending.inflight

\* a step in which a submit is accepted and a call starts
Accepted == pending'.inflight > pending.inflight

\* C14: when a call settles with a failure (null returned or an exception
\* thrown), the joint state is unchanged and exactly one assistant message
\* flagged isError is appended to the chat history.
C14_FailureKeepsJoints ==
    [][(Settles /\ Last(messages').isError) =>
          /\ joints' = joints
          /\ messages' = Append(messages, [role |-> "assistant", isError |-> TRUE])
      ]_vars

\* a failure has just been reported and the robot is where the user's edit
\* put it
C14_Witness ==
    /\ pending.inflight = 0 /\ ~loading
    /\ Last(messages).role = "assistant" /\ Last(messages).isError
    /\ edits > 0 /\ joints # INITIAL_JOINTS /\ joints \notin AiTargets

\* C15: at most one request is in flight; in a state where loading is true
\* or the input is empty or whitespace-only, no step starts a call, appends a
\* user message or turns loading on.
C15_OneRequestInFlight ==
    /\ [](pending.inflight <= 1)
    /\ [][(loading \/ Trim(input) = <<>>) =>
              /\ ~Accepted
              /\ loading' => loading
              /\ messages' # messages => Last(messages').role = "assistant"
         ]_vars

\* a request is in flight and the user has typed the next prompt: a submit
\* here is ignored
C15_Witness ==
    /\ loading /\ pending.inflight = 1
    /\ Trim(input) # <<>>

\* C16: an accepted submit sets loading to true; loading is true exactly
\* while the call has not settled, whichever way it settles, and is false
\* again eventually; every assistant reply comes right after a user message.
C16_LoadingCleared ==
    /\ [](loading <=> pending.inflight > 0)
    /\ [](\A i \in 1 .. Len(messages) :
              messages[i].role = "assistant" =>
                  i > 1 /\ messages[i - 1].role = "user")
    /\ [][Accepted => (~loading /\ loading'
                          /\ messages' = Append(messages,
                                 [role |-> "user", isError |-> FALSE]))]_vars
    /\ [][Settles => (loading /\ ~loading')]_vars
    /\ (loading ~> ~loading)

\* two calls have settled, one with an error and one with a pose
C16_Witness ==
    /\ ~loading /\ pending.inflight = 0
    /\ Len(messages) = 5
    /\ messages[3].isError /\ ~messages[5].isError

\* C17: the request carries the joint state of submit time, and when the
\* answer is applied the joint state becomes exactly the returned target,
\* whatever edits were made since the submit.
C17_LastWriterWins ==
    /\ [][Accepted => pending'.currentJoints = joints]_vars
    /\ [][(Settles /\ ~Last(messages').isError) => joints' \in AiTargets]_vars

\* an answer has just been applied over a joint state the user had edited
C17_Witness ==
    /\ pending.inflight = 0 /\ ~loading
    /\ Last(messages).role = "assistant" /\ ~Last(messages).isError
    /\ edits = MaxEdits
    /\ joints \in AiTargets

\* C18: handleChange(axis, value) changes no axis but the named one of the
\* latest joint state, whatever updates came before.
C18_OnlyNamedAxis ==
    \A axis \in Axes, value \in {NaN, Num(Deg(360) + Deg(360) * Over)} :
        \A next \in {handleChange(axis, value)} :
            \A other \in Axes \ {axis} :
                /\ other \in DOMAIN next <=> other \in DOMAIN joints
                /\ other \in DOMAIN joints => next[other] = joints[other]

\* J1 was typed after an out-of-range answer was applied: J2 and J5 still
\* hold the answer's values
C18_Witness ==
    /\ edits > 0
    /\ joints.j1 = JOINT_LIMITS.j1.min
    /\ joints.j2 = Deg(160) + Deg(360) * Over
    /\ joints.j5 = Deg(-180) - Deg(1)

=============================================================================
